---- MODULE Spec2Model ----
(***************************************************************************)
(* Group Tracker server (Express + Socket.IO): the in-memory registry of   *)
(* groups and members and the four socket handlers join_group,             *)
(* location_update, leave_group and disconnect.                            *)
(*                                                                         *)
(* Node runs every handler to completion on one thread, so each handler is *)
(* one atomic action.  JavaScript values are tagged records; strings are   *)
(* sequences of one-character strings so that trim and toUpperCase are     *)
(* computed, not assumed.                                                  *)
(***************************************************************************)
EXTENDS Integers, Sequences, FiniteSets, TLC

\* Number of client connections accepted during a run (each gets a fresh id).
MaxChannels == 2

-----------------------------------------------------------------------------
(* JavaScript values *)

JSUndef == [k |-> "undefined", n |-> 0, s |-> <<>>]
JSNull == [k |-> "null", n |-> 0, s |-> <<>>]
JSNaN == [k |-> "nan", n |-> 0, s |-> <<>>]
JSNum(i) == [k |-> "number", n |-> i, s |-> <<>>]
\* +Infinity (sign 1) and -Infinity (sign -1)
JSInf(sign) == [k |-> "infinity", n |-> sign, s |-> <<>>]
JSStr(chars) == [k |-> "string", n |-> 0, s |-> chars]
\* socket.id of channel c: an opaque identity
SocketId(c) == [k |-> "socketid", n |-> c, s |-> <<>>]

\* typeof v === 'number'
IsNumberType(v) == v.k \in {"number", "nan", "infinity"}

\* JavaScript truthiness, as used by !x and x || y
Truthy(v) ==
  CASE v.k = "undefined" -> FALSE
    [] v.k = "null" -> FALSE
    [] v.k = "nan" -> FALSE
    [] v.k = "number" -> v.n # 0
    [] v.k = "string" -> v.s # <<>>
    [] OTHER -> TRUE

\* a || b
Or(a, b) == IF Truthy(a) THEN a ELSE b

IsSpace(ch) == ch \in {" ", "\t", "\n"}

RECURSIVE TrimStart(_)
TrimStart(s) ==
  IF s = <<>> THEN <<>>
  ELSE IF IsSpace(Head(s)) THEN TrimStart(Tail(s)) ELSE s

RECURSIVE TrimEnd(_)
TrimEnd(s) ==
  IF s = <<>> THEN <<>>
  ELSE IF IsSpace(s[Len(s)]) THEN TrimEnd(SubSeq(s, 1, Len(s) - 1)) ELSE s

\* String.prototype.trim
Trim(s) == TrimEnd(TrimStart(s))

\* upper case of one character, for the letters the inputs below use
UpperChar(ch) ==
  CASE ch = "a" -> "A"
    [] ch = "b" -> "B"
    [] ch = "u" -> "U"
    [] ch = "v" -> "V"
    [] OTHER -> ch

\* String.prototype.toUpperCase
ToUpperCase(s) == [i \in 1..Len(s) |-> UpperChar(s[i])]

Digits == <<"0", "1", "2", "3", "4", "5", "6", "7", "8", "9">>

RECURSIVE NatToChars(_)
NatToChars(i) ==
  IF i < 10 THEN <<Digits[i + 1]>>
  ELSE NatToChars(i \div 10) \o <<Digits[(i % 10) + 1]>>

\* String(v)
ToStr(v) ==
  CASE v.k = "string" -> v.s
    [] v.k = "undefined" -> <<"u", "n", "d", "e", "f", "i", "n", "e", "d">>
    [] v.k = "null" -> <<"n", "u", "l", "l">>
    [] v.k = "nan" -> <<"N", "a", "N">>
    [] v.k = "number" ->
         IF v.n < 0 THEN <<"-">> \o NatToChars(0 - v.n) ELSE NatToChars(v.n)
    [] v.k = "infinity" ->
         (IF v.n < 0 THEN <<"-">> ELSE <<>>)
           \o <<"I", "n", "f", "i", "n", "i", "t", "y">>
    [] OTHER -> v.s

IsDigit(ch) == \E i \in 1..10 : Digits[i] = ch

DigitValue(ch) == (CHOOSE i \in 1..10 : Digits[i] = ch) - 1

RECURSIVE CharsToNat(_)
CharsToNat(s) ==
  IF s = <<>> THEN 0
  ELSE 10 * CharsToNat(SubSeq(s, 1, Len(s) - 1)) + DigitValue(s[Len(s)])

AllDigits(s) == s # <<>> /\ \A i \in 1..Len(s) : IsDigit(s[i])

\* Number(string): decimal integers, the empty string and Infinity; anything
\* else is NaN.
StringToNumber(s) ==
  LET t == Trim(s) IN
  IF t = <<>> THEN JSNum(0)
  ELSE IF AllDigits(t) THEN JSNum(CharsToNat(t))
  ELSE IF Head(t) \in {"-", "+"} /\ AllDigits(Tail(t))
    THEN JSNum((IF Head(t) = "-" THEN -1 ELSE 1) * CharsToNat(Tail(t)))
  ELSE IF t = ToStr(JSInf(1)) THEN JSInf(1)
  ELSE IF t = ToStr(JSInf(-1)) THEN JSInf(-1)
  ELSE JSNaN

\* Number(v)
ToNumber(v) ==
  CASE IsNumberType(v) -> v
    [] v.k = "undefined" -> JSNaN
    [] v.k = "null" -> JSNum(0)
    [] v.k = "string" -> StringToNumber(v.s)
    [] OTHER -> JSNaN

\* typeof x === 'number' ? x : Number(x)
CoerceCoord(v) == IF IsNumberType(v) THEN v ELSE ToNumber(v)

\* Number.isNaN
NumberIsNaN(v) == v.k = "nan"

-----------------------------------------------------------------------------
(* Objects with optional properties *)

HasProp(o, f) == f \in DOMAIN o
GetProp(o, f) == IF f \in DOMAIN o THEN o[f] ELSE JSUndef
SetProp(o, f, v) == [x \in (DOMAIN o) \cup {f} |-> IF x = f THEN v ELSE o[x]]
DeleteProp(o, f) == [x \in (DOMAIN o) \ {f} |-> o[x]]

EmptyObject == [x \in {} |-> JSUndef]

-----------------------------------------------------------------------------
(* Server helpers *)

normalizeGroup(group) ==
  IF ~Truthy(group) THEN <<>> ELSE ToUpperCase(Trim(ToStr(group)))

\* String(payload.userId || '').trim()
normalizeUserId(userId) == Trim(ToStr(Or(userId, JSStr(<<>>))))

Anonymous == JSStr(<<"A", "n", "o", "n", "y", "m", "o", "u", "s">>)
UnknownSport == JSStr(<<"u", "n", "k", "n", "o", "w", "n">>)

SanitizedFields == {"userId", "name", "lat", "lon", "sport", "updatedAt"}

\* sanitizeGroup copying the stored record as it is
sanitizeMember_Raw(m) == m

sanitizeMember(m) == [f \in SanitizedFields |-> GetProp(m, f)]

sanitizeGroup(groupObj) ==
  [members |-> [uid \in DOMAIN groupObj.members |-> sanitizeMember(groupObj.members[uid])]]

-----------------------------------------------------------------------------
(* State *)

VARIABLES
  groups,   \* the in-memory store: group code -> [members: userId -> member object]
  nextId,   \* number of connections accepted so far; they got the ids 1..nextId
  open,     \* the connected sockets
  rooms,    \* socket -> the set of rooms (group codes) it has joined
  sent,     \* what the last handled event emitted, in order
  last      \* the last handled event

vars == <<groups, nextId, open, rooms, sent, last>>

Channels == 1..MaxChannels

\* One emission: the room it goes to (<<>> when it goes to one socket), the
\* sockets that receive it, the event name and the payload.
Emission(room, to, event, payload) ==
  [room |-> room, to |-> to, event |-> event, payload |-> payload]

\* socket.emit(event, payload)
SocketEmit(c, event, payload) == Emission(<<>>, {c}, event, payload)

\* io.to(room).emit(event, payload), with the room membership rms
RoomEmit(rms, room, event, payload) ==
  Emission(room, {c \in DOMAIN rms : room \in rms[c]}, event, payload)

\* a membership test that looks at the group alone
HasMember_GroupOnly(gs, group, userId) == group \in DOMAIN gs

\* groups[group] && groups[group].members[userId]
HasMember(gs, group, userId) ==
  group \in DOMAIN gs /\ userId \in DOMAIN gs[group].members

\* What the store held for (group, userId) when an event arrived (history,
\* kept in last for the properties).
StatusOf(gs, group, userId) ==
  IF group \notin DOMAIN gs THEN "nogroup"
  ELSE IF userId \notin DOMAIN gs[group].members THEN "absent"
  ELSE IF HasProp(gs[group].members[userId], "socketId") THEN "online"
  ELSE "offline"

\* The record of a handled event: handler, socket, raw payload and what the
\* store held for the payload's (group, userId) before it.
Event(op, c, payload, was) == [op |-> op, ch |-> c, payload |-> payload, was |-> was]

NoPayload == [group |-> JSUndef, userId |-> JSUndef]

NoGroups == [g \in {} |-> [members |-> EmptyObject]]

Init ==
  /\ groups = NoGroups
  /\ nextId = 0
  /\ open = {}
  /\ rooms = [c \in Channels |-> {}]
  /\ sent = <<>>
  /\ last = Event("none", 0, NoPayload, "none")

\* groups[group] = { members: {} } when the group is unknown
EnsureGroup(gs, group) ==
  IF group \in DOMAIN gs THEN gs
  ELSE [g \in (DOMAIN gs) \cup {group} |->
          IF g = group THEN [members |-> EmptyObject] ELSE gs[g]]

\* a new record that starts with a position
MemberOrNew_WithPosition(gs, group, userId) ==
  IF userId \in DOMAIN gs[group].members THEN gs[group].members[userId]
  ELSE SetProp(SetProp(SetProp(EmptyObject, "userId", JSStr(userId)),
                       "lat", JSNum(0)), "lon", JSNum(0))

\* groups[group].members[userId] || { userId }
MemberOrNew(gs, group, userId) ==
  IF userId \in DOMAIN gs[group].members THEN gs[group].members[userId]
  ELSE SetProp(EmptyObject, "userId", JSStr(userId))

\* a write that drops the other members of the group
PutMember_Replace(gs, group, userId, m) ==
  [gs EXCEPT ![group].members = SetProp(EmptyObject, userId, m)]

\* groups[group].members[userId] = m
PutMember(gs, group, userId, m) ==
  [gs EXCEPT ![group].members = SetProp(@, userId, m)]

\* a leave that empties the group
RemoveMember_All(gs, group, userId) ==
  [gs EXCEPT ![group].members = EmptyObject]

\* delete groups[group].members[userId]
RemoveMember(gs, group, userId) ==
  [gs EXCEPT ![group].members = DeleteProp(@, userId)]

\* socket.join(group)
JoinRoom(rms, c, group) == [rms EXCEPT ![c] = @ \cup {group}]

\* a leave_group that forgets socket.leave
LeaveRoom_Stays(rms, c, group) == rms

\* socket.leave(group)
LeaveRoom(rms, c, group) == [rms EXCEPT ![c] = @ \ {group}]

\* app.get('/health'): the response body
HealthResponse(gs) == [ok |-> TRUE, groups |-> Cardinality(DOMAIN gs)]

\* io.on('connection'): a client connects and gets a fresh socket id
Connect ==
  /\ nextId < MaxChannels
  /\ nextId' = nextId + 1
  /\ open' = open \cup {nextId + 1}
  /\ UNCHANGED <<groups, rooms, sent, last>>

\* join_group checking the group code alone
JoinRejected_GroupOnly(group, userId) == group = <<>>

\* if (!group || !userId) in join_group
JoinRejected(group, userId) == group = <<>> \/ userId = <<>>

\* join_group replacing the stored record by a new one
JoinedMember_Fresh(m, name, c) ==
  SetProp(SetProp(SetProp(EmptyObject, "userId", m["userId"]), "name", name),
          "socketId", SocketId(c))

\* the member record join_group writes
JoinedMember(m, name, c) == SetProp(SetProp(m, "name", name), "socketId", SocketId(c))

\* join_group notifying the room before it answers the joiner
JoinEmissions_NotifyFirst(c, gs, rms, group, userId, name) ==
  <<RoomEmit(rms, group, "member_joined", [userId |-> userId, name |-> name]),
    SocketEmit(c, "group_state", sanitizeGroup(gs[group]))>>

\* join_group answering the joiner without notifying the room
JoinEmissions_StateOnly(c, gs, rms, group, userId, name) ==
  <<SocketEmit(c, "group_state", sanitizeGroup(gs[group]))>>

\* what join_group emits once the store gs and the rooms rms are updated
JoinEmissions(c, gs, rms, group, userId, name) ==
  <<SocketEmit(c, "group_state", sanitizeGroup(gs[group])),
    RoomEmit(rms, group, "member_joined", [userId |-> userId, name |-> name])>>

JoinError == [message |-> "group and userId are required to join"]

\* socket.on('join_group')
JoinGroup(c, payload) ==
  LET group == normalizeGroup(payload.group)
      userId == normalizeUserId(payload.userId)
      name == Or(payload.name, Anonymous)
  IN
  /\ c \in open
  /\ last' = Event("join_group", c, payload, StatusOf(groups, group, userId))
  /\ UNCHANGED <<nextId, open>>
  /\ IF JoinRejected(group, userId)
     THEN /\ sent' = <<SocketEmit(c, "error", JoinError)>>
          /\ UNCHANGED <<groups, rooms>>
     ELSE LET g1 == EnsureGroup(groups, group)
              g2 == PutMember(g1, group, userId,
                              JoinedMember(MemberOrNew(g1, group, userId), name, c))
              r2 == JoinRoom(rooms, c, group)
          IN /\ groups' = g2
             /\ rooms' = r2
             /\ sent' = JoinEmissions(c, g2, r2, group, userId, name)

\* if (!group || !userId || Number.isNaN(lat) || Number.isNaN(lon))
UpdateIgnored(group, userId, lat, lon) ==
  group = <<>> \/ userId = <<>> \/ NumberIsNaN(lat) \/ NumberIsNaN(lon)

\* the member record location_update writes
LocatedMember_NoLon(m, lat, lon, sport, timestamp, c) ==
  SetProp(SetProp(SetProp(SetProp(m,
    "lat", lat), "sport", sport),
    "updatedAt", timestamp), "socketId", SocketId(c))

\* m.lat = lat; m.lon = lon; m.sport = sport; m.updatedAt = timestamp;
\* m.socketId = socket.id
LocatedMember(m, lat, lon, sport, timestamp, c) ==
  SetProp(SetProp(SetProp(SetProp(SetProp(m,
    "lat", lat), "lon", lon), "sport", sport),
    "updatedAt", timestamp), "socketId", SocketId(c))

\* a broadcast that leaves out the members without a position
LocationsEmission_LocatedOnly(rms, gs, group) ==
  RoomEmit(rms, group, "group_locations",
           [members |-> [u \in {x \in DOMAIN gs[group].members :
                                  HasProp(gs[group].members[x], "lat")} |->
                           gs[group].members[u]]])

\* io.to(group).emit('group_locations', { members: groups[group].members })
LocationsEmission(rms, gs, group) ==
  RoomEmit(rms, group, "group_locations", [members |-> gs[group].members])

\* socket.on('location_update'); now is the value of Date.now()
LocationUpdate(c, payload, now) ==
  LET group == normalizeGroup(payload.group)
      userId == normalizeUserId(payload.userId)
      lat == CoerceCoord(payload.lat)
      lon == CoerceCoord(payload.lon)
      sport == Or(payload.sport, UnknownSport)
      timestamp == Or(payload.timestamp, JSNum(now))
  IN
  /\ c \in open
  /\ last' = Event("location_update", c, payload, StatusOf(groups, group, userId))
  /\ UNCHANGED <<nextId, open, rooms>>
  /\ IF UpdateIgnored(group, userId, lat, lon)
     THEN /\ sent' = <<>>
          /\ UNCHANGED groups
     ELSE LET g1 == EnsureGroup(groups, group)
              g2 == PutMember(g1, group, userId,
                              LocatedMember(MemberOrNew(g1, group, userId),
                                            lat, lon, sport, timestamp, c))
          IN /\ groups' = g2
             /\ sent' = <<LocationsEmission(rooms, g2, group)>>

\* socket.on('leave_group')
LeaveGroup(c, payload) ==
  LET group == normalizeGroup(payload.group)
      userId == normalizeUserId(payload.userId)
  IN
  /\ c \in open
  /\ last' = Event("leave_group", c, payload, StatusOf(groups, group, userId))
  /\ UNCHANGED <<nextId, open>>
  /\ IF group = <<>> \/ userId = <<>>
     THEN /\ sent' = <<>>
          /\ UNCHANGED <<groups, rooms>>
     ELSE /\ IF HasMember(groups, group, userId)
             THEN LET g2 == RemoveMember(groups, group, userId)
                  IN /\ groups' = g2
                     /\ sent' = <<LocationsEmission(rooms, g2, group)>>
             ELSE /\ sent' = <<>>
                  /\ UNCHANGED groups
          /\ rooms' = LeaveRoom(rooms, c, group)

\* the disconnect handler deleting the members that used socket c
MarkOffline_DropsMember(members, c) ==
  [uid \in {u \in DOMAIN members : GetProp(members[u], "socketId") # SocketId(c)} |->
     members[uid]]

\* a disconnect that takes every member of the group offline
MarkOffline_Everyone(members, c) ==
  [uid \in DOMAIN members |-> DeleteProp(members[uid], "socketId")]

\* a disconnect that leaves the socketId in place
MarkOffline_Keeps(members, c) == members

\* The members of one group with the socketId of every member that used
\* socket c deleted (the inner loop of the disconnect handler).
MarkOffline(members, c) ==
  [uid \in DOMAIN members |->
     IF GetProp(members[uid], "socketId") = SocketId(c)
     THEN DeleteProp(members[uid], "socketId")
     ELSE members[uid]]

\* the disconnect handler marking every group changed
ChangedGroups_All(gs, c) == DOMAIN gs

\* the groups in which the disconnect handler sets changed = true
ChangedGroups(gs, c) ==
  {g \in DOMAIN gs :
     \E uid \in DOMAIN gs[g].members :
        GetProp(gs[g].members[uid], "socketId") = SocketId(c)}

\* the orders in which a loop can visit the set S
Orders(S) ==
  {f \in [1..Cardinality(S) -> S] : \A i, j \in 1..Cardinality(S) : f[i] = f[j] => i = j}

\* socket.on('disconnect').  Socket.IO has taken the closing socket out of
\* all its rooms before the handler runs.  The groups are visited in the
\* store's key order, which the model leaves open.
Disconnect(c) ==
  /\ c \in open
  /\ open' = open \ {c}
  /\ last' = Event("disconnect", c, NoPayload, "none")
  /\ UNCHANGED nextId
  /\ LET r2 == [rooms EXCEPT ![c] = {}]
         g2 == [g \in DOMAIN groups |-> [members |-> MarkOffline(groups[g].members, c)]]
     IN /\ rooms' = r2
        /\ groups' = g2
        /\ \E order \in Orders(ChangedGroups(groups, c)) :
             sent' = [i \in DOMAIN order |-> LocationsEmission(r2, g2, order[i])]

-----------------------------------------------------------------------------
(* Client inputs *)

\* Raw group codes and user ids as clients send them: padded or lower case.
RawA == JSStr(<<" ", "a">>)
RawB == JSStr(<<"b", " ">>)
RawU == JSStr(<<"u", " ">>)
RawV == JSStr(<<"v">>)
Blank == JSStr(<<" ">>)
Ski == JSStr(<<"s", "k", "i">>)

JoinPayloads ==
  { [group |-> RawA, userId |-> RawU, name |-> JSUndef],
    [group |-> JSStr(<<"A">>), userId |-> RawV, name |-> JSStr(<<"B", "o">>)] }

LeavePayloads ==
  { [group |-> RawA, userId |-> RawU],
    [group |-> RawA, userId |-> RawV],
    [group |-> RawB, userId |-> RawU] }

UpdatePayloads ==
  { [group |-> RawA, userId |-> RawU,
     lat |-> JSNum(1), lon |-> JSStr(<<" ", "2">>), sport |-> JSUndef, timestamp |-> JSUndef],
    [group |-> RawB, userId |-> RawU,
     lat |-> JSStr(<<"2">>), lon |-> JSNum(1), sport |-> Ski, timestamp |-> JSNum(7)] }

\* Values Date.now() returns
NowValues == {3}

\* The coordinate values a client can put in lat or lon: a missing field,
\* null, the empty string, a non-numeric string, NaN, +/-Infinity, a number
\* and a numeric string.
CoordClasses ==
  {JSUndef, JSNull, JSStr(<<>>), JSStr(<<"x">>), JSNaN, JSInf(1), JSInf(-1),
   JSNum(1), JSStr(<<"2">>)}

\* The values a client can put in group or userId that normalize to the
\* empty string.
EmptyIds == {JSUndef, JSStr(<<>>), Blank}

InputJoinPayloads ==
  { [group |-> RawA, userId |-> RawU, name |-> JSUndef] }
  \cup { [group |-> v, userId |-> RawU, name |-> JSUndef] : v \in EmptyIds }
  \cup { [group |-> RawA, userId |-> v, name |-> JSUndef] : v \in {JSUndef, Blank} }

\* Every class of coordinate in lat, and the classes the validation lets
\* through or drops in lon.
InputUpdatePayloads ==
  { [group |-> RawA, userId |-> RawU, lat |-> v, lon |-> JSNum(1),
     sport |-> Ski, timestamp |-> JSNum(7)] : v \in CoordClasses }
  \cup
  { [group |-> RawA, userId |-> RawU, lat |-> JSNum(1), lon |-> v,
     sport |-> Ski, timestamp |-> JSNum(7)] :
       v \in {JSUndef, JSNull, JSStr(<<"x">>), JSInf(-1)} }
  \cup
  { [group |-> RawA, userId |-> RawU, lat |-> JSStr(<<"2">>), lon |-> JSStr(<<" ", "2">>),
     sport |-> JSUndef, timestamp |-> JSUndef] }
  \cup
  { [group |-> Blank, userId |-> RawU, lat |-> JSNum(1), lon |-> JSNum(1),
     sport |-> Ski, timestamp |-> JSNum(7)],
    [group |-> RawA, userId |-> JSUndef, lat |-> JSNum(1), lon |-> JSNum(1),
     sport |-> Ski, timestamp |-> JSNum(7)] }

InputLeavePayloads ==
  { [group |-> RawA, userId |-> RawU],
    [group |-> RawA, userId |-> Blank],
    [group |-> JSUndef, userId |-> RawU] }

Next ==
  \/ Connect
  \/ \E c \in Channels, p \in JoinPayloads : JoinGroup(c, p)
  \/ \E c \in Channels, p \in UpdatePayloads, now \in NowValues : LocationUpdate(c, p, now)
  \/ \E c \in Channels, p \in LeavePayloads : LeaveGroup(c, p)
  \/ \E c \in Channels : Disconnect(c)

Spec == Init /\ [][Next]_vars

\* The server with one group and one user id, and every class of malformed
\* input.
NextInputs ==
  \/ Connect
  \/ \E c \in Channels, p \in InputJoinPayloads : JoinGroup(c, p)
  \/ \E c \in Channels, p \in InputUpdatePayloads, now \in NowValues : LocationUpdate(c, p, now)
  \/ \E c \in Channels, p \in InputLeavePayloads : LeaveGroup(c, p)
  \/ \E c \in Channels : Disconnect(c)

SpecInputs == Init /\ [][NextInputs]_vars

\* The payloads of a user that reconnects: every connection sends for the
\* same (group, userId), and tags the name, the position and the timestamp
\* with its own number, so that a record shows which connection joined last
\* and which one sent the last position.
JoinAs(c) ==
  [group |-> RawA, userId |-> RawU, name |-> JSStr(<<"c">> \o NatToChars(c))]

UpdateAs(c) ==
  [group |-> RawA, userId |-> RawU, lat |-> JSNum(c), lon |-> JSNum(c),
   sport |-> Ski, timestamp |-> JSNum(c)]

ReconnectLeavePayloads == { [group |-> RawA, userId |-> RawU] }

\* a second user of the group, joining from any connection
OtherJoinPayloads == { [group |-> RawA, userId |-> RawV, name |-> JSUndef] }

\* The server with one user sending from several connections.
NextReconnect ==
  \/ Connect
  \/ \E c \in Channels : JoinGroup(c, JoinAs(c))
  \/ \E c \in Channels, p \in OtherJoinPayloads : JoinGroup(c, p)
  \/ \E c \in Channels, now \in NowValues : LocationUpdate(c, UpdateAs(c), now)
  \/ \E c \in Channels, p \in ReconnectLeavePayloads : LeaveGroup(c, p)
  \/ \E c \in Channels : Disconnect(c)

SpecReconnect == Init /\ [][NextReconnect]_vars

-----------------------------------------------------------------------------
(* Vocabulary of the properties *)

\* the normalized group code and user id of the last handled event
LastGroup == normalizeGroup(last.payload.group)
LastUserId == normalizeUserId(last.payload.userId)

\* the last handled event named a non-empty group and user id
LastIdsValid == LastGroup # <<>> /\ LastUserId # <<>>

\* this step is the handling of an event by handler op
HandlerStep(op) == last'.op = op /\ nextId' = nextId

IsOffline(gs, g, u) == HasMember(gs, g, u) /\ ~HasProp(gs[g].members[u], "socketId")

\* position (lat, lon), activity and updatedAt of a member record
Located(m) == [f \in {"lat", "lon", "sport", "updatedAt"} |-> GetProp(m, f)]

\* the sockets that have joined room g
Subscribers(rms, g) == {c \in Channels : g \in rms[c]}

\* the sockets whose disconnect has been handled
Closed == (1..nextId) \ open

\* a coordinate value that is a finite number or parses to one
IsFiniteInput(v) ==
  \/ v.k = "number"
  \/ v.k = "string" /\ Trim(v.s) # <<>> /\ StringToNumber(v.s).k = "number"

-----------------------------------------------------------------------------
(* C1: a disconnect changes nothing in the registry except that the members
   whose socketId is the closed socket lose their socketId: every group keeps
   its set of member userIds, every member keeps userId, name, lat, lon,
   sport and updatedAt, and every other member record is untouched. *)
C1_DisconnectOnlyClearsSocketId ==
  [][HandlerStep("disconnect") =>
       /\ DOMAIN groups' = DOMAIN groups
       /\ \A g \in DOMAIN groups :
            /\ DOMAIN groups'[g].members = DOMAIN groups[g].members
            /\ \A u \in DOMAIN groups[g].members :
                 LET m == groups[g].members[u]
                     m2 == groups'[g].members[u]
                 IN /\ \A f \in SanitizedFields :
                         /\ HasProp(m2, f) = HasProp(m, f)
                         /\ GetProp(m2, f) = GetProp(m, f)
                    /\ IF GetProp(m, "socketId") = SocketId(last'.ch)
                       THEN ~HasProp(m2, "socketId")
                       ELSE m2 = m]_vars

\* A disconnect has left one member offline with its position and another
\* member online.
C1_Witness ==
  /\ last.op = "disconnect"
  /\ \E g \in DOMAIN groups : \E u \in DOMAIN groups[g].members :
       /\ ~HasProp(groups[g].members[u], "socketId")
       /\ HasProp(groups[g].members[u], "lat")
  /\ \E g \in DOMAIN groups : \E u \in DOMAIN groups[g].members :
       HasProp(groups[g].members[u], "socketId")

(* C2: no group_locations payload that reaches a socket carries a socketId:
   every member entry has only userId, name, lat, lon, sport, updatedAt. *)
C2_NoSocketIdInGroupLocations ==
  \A i \in DOMAIN sent :
    (sent[i].event = "group_locations" /\ sent[i].to # {}) =>
      \A u \in DOMAIN sent[i].payload.members :
        DOMAIN sent[i].payload.members[u] \subseteq SanitizedFields

(* C3: on a valid join the group_state sent to the joining socket holds
   exactly the members of the group's registry entry, the joiner included,
   each with exactly the fields userId, name, lat, lon, sport, updatedAt and
   the registry's values; and a member that stays offline keeps the position
   and updatedAt it went offline with. *)
C3_JoinSnapshot ==
  [][/\ (HandlerStep("join_group") /\ LastIdsValid') =>
          /\ sent' # <<>>
          /\ sent'[1].event = "group_state"
          /\ sent'[1].to = {last'.ch}
          /\ DOMAIN sent'[1].payload.members = DOMAIN groups'[LastGroup'].members
          /\ LastUserId' \in DOMAIN sent'[1].payload.members
          /\ \A u \in DOMAIN sent'[1].payload.members :
               /\ DOMAIN sent'[1].payload.members[u] = SanitizedFields
               /\ \A f \in SanitizedFields :
                    sent'[1].payload.members[u][f]
                      = GetProp(groups'[LastGroup'].members[u], f)
     /\ \A g \in DOMAIN groups : \A u \in DOMAIN groups[g].members :
          (IsOffline(groups, g, u) /\ IsOffline(groups', g, u)) =>
             Located(groups'[g].members[u]) = Located(groups[g].members[u])]_vars

\* A join got a snapshot that holds an offline member with its position.
C3_Witness ==
  /\ last.op = "join_group"
  /\ LastIdsValid
  /\ sent # <<>>
  /\ \E u \in DOMAIN sent[1].payload.members :
       /\ sent[1].payload.members[u]["lat"].k = "number"
       /\ IsOffline(groups, LastGroup, u)

(* C4: a join for a member that is offline sets its socketId to the joining
   socket and keeps its position and updatedAt (which an offline member keeps
   from before its disconnect); a location_update for an offline member sets
   its socketId to the sending socket; neither adds a member record. *)
C4_RejoinRestoresChannel ==
  [][\A g \in DOMAIN groups : \A u \in DOMAIN groups[g].members :
       IsOffline(groups, g, u) =>
         /\ (HasMember(groups', g, u) /\ ~HasProp(groups'[g].members[u], "socketId")) =>
               Located(groups'[g].members[u]) = Located(groups[g].members[u])
         /\ (HandlerStep("join_group") /\ LastGroup' = g /\ LastUserId' = u) =>
               /\ DOMAIN groups'[g].members = DOMAIN groups[g].members
               /\ groups'[g].members[u]["socketId"] = SocketId(last'.ch)
               /\ groups'[g].members[u]["userId"] = JSStr(u)
               /\ Located(groups'[g].members[u]) = Located(groups[g].members[u])
         /\ (HandlerStep("location_update") /\ LastGroup' = g /\ LastUserId' = u
               /\ IsFiniteInput(last'.payload.lat) /\ IsFiniteInput(last'.payload.lon)) =>
               /\ DOMAIN groups'[g].members = DOMAIN groups[g].members
               /\ groups'[g].members[u]["socketId"] = SocketId(last'.ch)
               /\ groups'[g].members[u]["userId"] = JSStr(u)]_vars

\* An offline member with a position has been brought back by a join from
\* another socket than the one that was closed.
C4_Witness ==
  /\ last.op = "join_group"
  /\ last.was = "offline"
  /\ LastIdsValid
  /\ last.ch \notin Closed
  /\ Closed # {}
  /\ HasProp(groups[LastGroup].members[LastUserId], "lat")
  /\ groups[LastGroup].members[LastUserId]["socketId"] = SocketId(last.ch)

(* C5: on a valid join the joining socket is in the group's room, gets
   group_state first, and member_joined {userId, name} is emitted after it to
   every socket in the room, the joining socket among them. *)
C5_JoinOrder ==
  (last.op = "join_group" /\ LastIdsValid) =>
    /\ LastGroup \in rooms[last.ch]
    /\ Len(sent) = 2
    /\ sent[1].event = "group_state"
    /\ sent[1].to = {last.ch}
    /\ sent[2].event = "member_joined"
    /\ sent[2].room = LastGroup
    /\ sent[2].to = Subscribers(rooms, LastGroup)
    /\ last.ch \in sent[2].to
    /\ sent[2].payload =
         [userId |-> LastUserId,
          name |-> groups[LastGroup].members[LastUserId]["name"]]

\* A join was announced to the joiner and to another socket of the room.
C5_Witness ==
  /\ last.op = "join_group"
  /\ LastIdsValid
  /\ Len(sent) = 2
  /\ Cardinality(sent[2].to) >= 2

(* C6: a join whose group or userId is empty after normalization sends
   exactly one error, to the originating socket, and nothing else; the
   registry and every socket's room membership are unchanged. *)
C6_InvalidJoinRejected ==
  [][(HandlerStep("join_group") /\ ~LastIdsValid') =>
       /\ Len(sent') = 1
       /\ sent'[1].event = "error"
       /\ sent'[1].to = {last'.ch}
       /\ groups' = groups
       /\ rooms' = rooms]_vars

\* A join with a missing userId was rejected while groups and members exist
\* and another socket is connected.
C6_Witness ==
  /\ last.op = "join_group"
  /\ Cardinality(open) >= 2
  /\ LastGroup # <<>>
  /\ LastUserId = <<>>
  /\ groups # NoGroups
  /\ Len(sent) = 1
  /\ sent[1].event = "error"

(* C7: a location_update whose lat or lon is missing, null, an empty or
   non-numeric string, NaN or +/-Infinity is dropped: the registry is
   unchanged and nothing is emitted. *)
C7_BadCoordinatesDropped ==
  [][(HandlerStep("location_update")
        /\ (~IsFiniteInput(last'.payload.lat) \/ ~IsFiniteInput(last'.payload.lon))) =>
       /\ groups' = groups
       /\ sent' = <<>>]_vars

(* C8: a location_update with non-empty group and userId and numeric
   coordinates leaves the group in the registry with that member at the
   given position and with the sender's socketId, and emits exactly one
   group_locations to the group's room whose member keys are the group's
   member set. *)
C8_UpdateAlwaysSucceeds ==
  (/\ last.op = "location_update"
   /\ LastIdsValid
   /\ IsFiniteInput(last.payload.lat)
   /\ IsFiniteInput(last.payload.lon)) =>
    /\ HasMember(groups, LastGroup, LastUserId)
    /\ LET m == groups[LastGroup].members[LastUserId] IN
         /\ GetProp(m, "lat") = ToNumber(last.payload.lat)
         /\ GetProp(m, "lon") = ToNumber(last.payload.lon)
         /\ GetProp(m, "socketId") = SocketId(last.ch)
    /\ Len(sent) = 1
    /\ sent[1].event = "group_locations"
    /\ sent[1].room = LastGroup
    /\ sent[1].to = Subscribers(rooms, LastGroup)
    /\ DOMAIN sent[1].payload.members = DOMAIN groups[LastGroup].members

\* An update created a member next to one that has no position, and the
\* broadcast reached a subscriber.
C8_Witness ==
  /\ last.op = "location_update"
  /\ last.was = "absent"
  /\ Len(sent) = 1
  /\ sent[1].to # {}
  /\ \E u \in DOMAIN groups[LastGroup].members :
       ~HasProp(groups[LastGroup].members[u], "lat")

(* C9: a leave that repeats the leave handled just before it changes neither
   the registry nor the rooms and emits nothing; and a leave for a userId
   that is not a member of the group leaves the registry unchanged and emits
   nothing. *)
C9_LeaveIdempotent ==
  [][HandlerStep("leave_group") =>
       /\ (last.op = "leave_group" /\ last.ch = last'.ch /\ last.payload = last'.payload) =>
             (groups' = groups /\ rooms' = rooms /\ sent' = <<>>)
       /\ ~HasMember(groups, LastGroup', LastUserId') =>
             (groups' = groups /\ sent' = <<>>)]_vars

\* A leave found the member already gone from an existing group.
C9_Witness ==
  /\ last.op = "leave_group"
  /\ last.was = "absent"
  /\ sent = <<>>

(* C10: a disconnect of socket c emits exactly one group_locations for each
   group that had a member with socketId c and nothing else; when no member
   matches it changes no group and emits nothing; and no member matches a
   socket whose disconnect has been handled. *)
C10_DisconnectOncePerGroup ==
  [][/\ HandlerStep("disconnect") =>
          /\ \A i \in DOMAIN sent' :
               sent'[i].event = "group_locations" /\ sent'[i].room \in DOMAIN groups
          /\ \A g \in DOMAIN groups :
               Cardinality({i \in DOMAIN sent' : sent'[i].room = g}) =
                 IF \E u \in DOMAIN groups[g].members :
                      GetProp(groups[g].members[u], "socketId") = SocketId(last'.ch)
                 THEN 1 ELSE 0
          /\ (\A g \in DOMAIN groups : \A u \in DOMAIN groups[g].members :
                GetProp(groups[g].members[u], "socketId") # SocketId(last'.ch)) =>
                (groups' = groups /\ sent' = <<>>)
     /\ \A c \in (1..nextId') \ open' :
          \A g \in DOMAIN groups' : \A u \in DOMAIN groups'[g].members :
            GetProp(groups'[g].members[u], "socketId") # SocketId(c)]_vars

\* The only socket there was has disconnected; it backed two members of one
\* group and a member of another, and two broadcasts went out.
C10_Witness ==
  /\ last.op = "disconnect"
  /\ nextId = 1
  /\ Len(sent) = 2
  /\ \E g \in DOMAIN groups : Cardinality(DOMAIN groups[g].members) = 2

(* C11: a userId leaves a group's member set only in a leave_group step
   that names that group and that userId; no join, location_update or
   disconnect removes a member. *)
C11_RemovedOnlyByLeave ==
  [][\A g \in DOMAIN groups : \A u \in DOMAIN groups[g].members :
       ~HasMember(groups', g, u) =>
          (HandlerStep("leave_group") /\ LastGroup' = g /\ LastUserId' = u)]_vars

\* A leave has removed a member and another member is still in the group.
C11_Witness ==
  /\ last.op = "leave_group"
  /\ last.was \in {"online", "offline"}
  /\ ~HasMember(groups, LastGroup, LastUserId)
  /\ groups[LastGroup].members # EmptyObject

(* C12: a group code that is a key of the registry stays a key, also when
   its last member has left; the group count of the health endpoint never
   decreases; and a key is created only by a join with non-empty group and
   userId or by a location_update with non-empty group and userId and
   coordinates that are finite numbers. *)
C12_GroupsNeverDestroyed ==
  [][/\ DOMAIN groups \subseteq DOMAIN groups'
     /\ HealthResponse(groups').groups >= HealthResponse(groups).groups
     /\ \A g \in (DOMAIN groups') \ (DOMAIN groups) :
          /\ LastGroup' = g
          /\ LastUserId' # <<>>
          /\ \/ HandlerStep("join_group")
             \/ /\ HandlerStep("location_update")
                /\ IsFiniteInput(last'.payload.lat)
                /\ IsFiniteInput(last'.payload.lon)]_vars

(* C13: a leave_group with non-empty group and userId leaves the sending
   socket outside the group's room, whether or not the named member
   existed; a socket enters a room only by its own join_group for that
   group; and a broadcast to a room reaches only sockets that are in the
   room before or after the step, so the socket that left receives nothing
   more for the group until it joins again. *)
C13_LeaveUnsubscribes ==
  [][/\ (HandlerStep("leave_group") /\ LastIdsValid')
           => LastGroup' \notin rooms'[last'.ch]
     /\ \A c \in Channels : \A g \in rooms'[c] \ rooms[c] :
          HandlerStep("join_group") /\ last'.ch = c /\ LastGroup' = g
     /\ \A i \in 1..Len(sent') :
          (nextId' = nextId /\ sent'[i].room # <<>>) =>
            sent'[i].to \subseteq Subscribers(rooms, sent'[i].room)
                                    \cup Subscribers(rooms', sent'[i].room)]_vars

\* A leave for a user id that was not a member has been handled and the
\* sender is outside the room while another socket is still in it.
C13_Witness ==
  /\ last.op = "leave_group"
  /\ LastIdsValid
  /\ last.was = "absent"
  /\ LastGroup \notin rooms[last.ch]
  /\ Subscribers(rooms, LastGroup) # {}

\* position, activity and updatedAt that one location_update with payload p
\* handled at time now writes
WrittenBy(p, now) ==
  [lat |-> CoerceCoord(p.lat), lon |-> CoerceCoord(p.lon),
   sport |-> Or(p.sport, UnknownSport),
   updatedAt |-> Or(p.timestamp, JSNum(now))]

NotLocated == [f \in {"lat", "lon", "sport", "updatedAt"} |-> JSUndef]

(* C14: handlers run to completion one at a time, so in every reachable
   state, whatever the interleaving of location_update, join, leave and
   disconnect events from the connections, each member record is either
   without any position or carries the lat, lon, sport and updatedAt of
   one single location_update; no record mixes the fields of two updates. *)
C14_NoHalfAppliedUpdate ==
  \A g \in DOMAIN groups : \A u \in DOMAIN groups[g].members :
    LET m == groups[g].members[u]
    IN /\ DOMAIN m \subseteq {"userId", "name", "socketId", "lat", "lon", "sport", "updatedAt"}
       /\ \/ Located(m) = NotLocated
          \/ \E p \in InputUpdatePayloads, now \in NowValues :
               /\ normalizeGroup(p.group) = g
               /\ normalizeUserId(p.userId) = u
               /\ Located(m) = WrittenBy(p, now)

\* A location_update from one connection has overwritten the record of a
\* member that the disconnect of another connection had taken offline.
C14_Witness ==
  /\ last.op = "location_update"
  /\ last.was = "offline"
  /\ last.payload.timestamp = JSUndef
  /\ HasMember(groups, LastGroup, LastUserId)
  /\ \E now \in NowValues :
       Located(groups[LastGroup].members[LastUserId]) = WrittenBy(last.payload, now)

(* C15: in every reachable state every member record of every group has a
   name, the placeholder 'Anonymous' when the client gave none, whether the
   record was created by join_group or by location_update. *)
C15_EveryMemberNamed ==
  \A g \in DOMAIN groups : \A u \in DOMAIN groups[g].members :
    /\ HasProp(groups[g].members[u], "name")
    /\ Truthy(groups[g].members[u]["name"])

(* C16 as stated: once a leave_group has removed (group, userId), the next
   event does not make that user id a member of that group again. *)
C16_RemovedIsTerminal ==
  [][(/\ last.op = "leave_group"
      /\ last.was \in {"online", "offline"}
      /\ ~HasMember(groups, LastGroup, LastUserId))
        => ~HasMember(groups', LastGroup, LastUserId)]_vars

(* C16 amended: a user id that is not a member of a group, a removed one
   included, becomes a member only by a join_group or a location_update
   that names that group and that user id, and the record it gets is a new
   one: it holds the user id, the sender's socket and exactly the fields
   that this one event writes, nothing of an earlier record. *)
C16_RemovedUntilRecreated ==
  [][\A g \in DOMAIN groups' : \A u \in DOMAIN groups'[g].members :
       ~HasMember(groups, g, u) =>
         LET m == groups'[g].members[u]
         IN /\ LastGroup' = g
            /\ LastUserId' = u
            /\ m["userId"] = JSStr(u)
            /\ m["socketId"] = SocketId(last'.ch)
            /\ \/ /\ HandlerStep("join_group")
                  /\ DOMAIN m = {"userId", "name", "socketId"}
               \/ /\ HandlerStep("location_update")
                  /\ DOMAIN m = {"userId", "lat", "lon", "sport",
                                 "updatedAt", "socketId"}]_vars

\* A location_update has made u a member of group B again after a leave
\* had removed it: only u is ever a member of B, and B existed without u.
C16_Witness ==
  /\ last.op = "location_update"
  /\ last.was = "absent"
  /\ LastGroup = <<"B">>
  /\ HasMember(groups, LastGroup, LastUserId)

(* C17: when a leave_group removes an existing member, the group_locations
   it emits is delivered to the sockets in the group's room other than the
   leaving socket; the leaving socket does not receive it. *)
C17_LeaverDoesNotReceive ==
  [][(HandlerStep("leave_group") /\ last'.was \in {"online", "offline"}) =>
       /\ Len(sent') = 1
       /\ sent'[1].event = "group_locations"
       /\ sent'[1].to = Subscribers(rooms, LastGroup') \ {last'.ch}]_vars

\* the user ids of group g in the store gs
MembersOf(gs, g) == IF g \in DOMAIN gs THEN DOMAIN gs[g].members ELSE {}

\* the position of a member record or of a broadcast member entry
Position(m) == <<GetProp(m, "lat"), GetProp(m, "lon")>>

(* C18: a join_group, location_update or leave_group naming group G and
   user id u leaves every other group as it was, creates no other group,
   leaves every other member record of G as it was (socketId included) and
   adds or removes no other member; what it emits goes either to room G,
   and then only to sockets in room G before or after the step, or to the
   sender alone as group_state or error; and it changes no socket's rooms
   other than the sender's membership of room G. *)
C18_OnlyNamedMemberAffected ==
  [][(HandlerStep("join_group") \/ HandlerStep("location_update")
        \/ HandlerStep("leave_group")) =>
       \A G \in {LastGroup'} : \A u \in {LastUserId'} :
          /\ \A g \in (DOMAIN groups) \ {G} :
               g \in DOMAIN groups' /\ groups'[g] = groups[g]
          /\ (DOMAIN groups') \ (DOMAIN groups) \subseteq {G}
          /\ \A x \in MembersOf(groups, G) \ {u} :
               HasMember(groups', G, x)
                 /\ groups'[G].members[x] = groups[G].members[x]
          /\ MembersOf(groups', G) \ MembersOf(groups, G) \subseteq {u}
          /\ \A i \in 1..Len(sent') :
               IF sent'[i].room = <<>>
               THEN /\ sent'[i].to = {last'.ch}
                    /\ sent'[i].event \in {"group_state", "error"}
               ELSE /\ sent'[i].room = G
                    /\ sent'[i].to \subseteq Subscribers(rooms, G)
                                               \cup Subscribers(rooms', G)
          /\ \A c \in Channels :
               /\ c # last'.ch => rooms'[c] = rooms[c]
               /\ rooms'[c] \ {G} = rooms[c] \ {G}]_vars

\* A leave has removed a member of a group that keeps another member,
\* while another group has a member and a socket is outside the room.
C18_Witness ==
  /\ last.op = "leave_group"
  /\ last.was = "online"
  /\ sent # <<>>
  /\ MembersOf(groups, LastGroup) # {}
  /\ \E g \in DOMAIN groups : g # LastGroup /\ MembersOf(groups, g) # {}
  /\ \E c \in open : LastGroup \notin rooms[c] /\ c \notin sent[1].to

(* C19: in every reachable state, for every group G and every member of G
   that has a socketId, that socket is in room G. *)
C19_OnlineMemberSubscribed ==
  \A g \in DOMAIN groups : \A u \in DOMAIN groups[g].members :
    HasProp(groups[g].members[u], "socketId") =>
      g \in rooms[groups[g].members[u]["socketId"].n]

\* the emission e tells its recipients the member set and the positions
\* that group g has after the step
Carries(e, g) ==
  /\ e.room = g \/ (e.room = <<>> /\ LastGroup' = g)
  /\ \/ /\ e.event \in {"group_state", "group_locations"}
        /\ DOMAIN e.payload.members = MembersOf(groups', g)
        /\ \A x \in MembersOf(groups', g) :
             Position(e.payload.members[x]) = Position(groups'[g].members[x])
     \/ /\ e.event = "member_joined"
        /\ MembersOf(groups', g) = MembersOf(groups, g) \cup {e.payload.userId}
        /\ \A x \in MembersOf(groups', g) :
             Position(groups'[g].members[x]) =
               IF HasMember(groups, g, x) THEN Position(groups[g].members[x])
               ELSE <<JSUndef, JSUndef>>

(* C20: whenever a step changes the member set of a group G or the
   position of one of its members, every socket in room G after the step
   receives in that step a message that carries the change (a group_state
   or group_locations with G's members and positions, or the member_joined
   of the one new member); and a socket that enters room G receives in that
   step a group_state with G's members and positions. *)
C20_SubscribersSeeEveryChange ==
  [][\A g \in DOMAIN groups' :
       /\ (\/ MembersOf(groups', g) # MembersOf(groups, g)
           \/ \E x \in MembersOf(groups', g) :
                Position(groups'[g].members[x]) # Position(groups[g].members[x]))
            => \A c \in Subscribers(rooms', g) :
                 \E i \in 1..Len(sent') : c \in sent'[i].to /\ Carries(sent'[i], g)
       /\ \A c \in Subscribers(rooms', g) \ Subscribers(rooms, g) :
            \E i \in 1..Len(sent') :
              /\ c \in sent'[i].to
              /\ sent'[i].event = "group_state"
              /\ Carries(sent'[i], g)]_vars

\* A join has added a new member to a group while another socket was in
\* the room, and that socket got the member_joined.
C20_Witness ==
  /\ last.op = "join_group"
  /\ last.was = "absent"
  /\ Len(sent) = 2
  /\ \E c \in Subscribers(rooms, LastGroup) \ {last.ch} : c \in sent[2].to

(* C21: the disconnect of socket c1 leaves every member whose socketId is
   another socket exactly as it was, so a member that a later join_group or
   location_update has moved from c1 to c2 keeps socketId c2; and it emits
   a group_locations for a group only when some member of that group still
   had socketId c1. *)
C21_StaleDisconnectKeepsMember ==
  [][HandlerStep("disconnect") =>
       \A g \in DOMAIN groups :
         /\ \A u \in DOMAIN groups[g].members :
              (/\ HasProp(groups[g].members[u], "socketId")
               /\ groups[g].members[u]["socketId"] # SocketId(last'.ch))
                => groups'[g].members[u] = groups[g].members[u]
         /\ (\E i \in 1..Len(sent') : sent'[i].room = g) =>
              \E x \in DOMAIN groups[g].members :
                GetProp(groups[g].members[x], "socketId") = SocketId(last'.ch)]_vars

\* Socket c1 has disconnected without any broadcast; the member carries the
\* name of c1's join (so c1 backed it), the position of c2's later
\* location_update, and still has socketId c2.
C21_Witness ==
  /\ last.op = "disconnect"
  /\ sent = <<>>
  /\ HasMember(groups, <<"A">>, <<"u">>)
  /\ \E c2 \in open :
       LET m == groups[<<"A">>].members[<<"u">>]
       IN /\ c2 # last.ch
          /\ GetProp(m, "socketId") = SocketId(c2)
          /\ GetProp(m, "name") = JoinAs(last.ch).name
          /\ \E now \in NowValues : Located(m) = WrittenBy(UpdateAs(c2), now)

(* C22: in every reachable state the socketId of a member, when present,
   is the id of a socket that is connected (its disconnect has not been
   handled); no member of any group has the id of a socket whose
   disconnect has been handled. *)
C22_NoDanglingSocketId ==
  \A g \in DOMAIN groups : \A u \in DOMAIN groups[g].members :
    HasProp(groups[g].members[u], "socketId") =>
      /\ groups[g].members[u]["socketId"].k = "socketid"
      /\ groups[g].members[u]["socketId"].n \in open
      /\ groups[g].members[u]["socketId"].n \notin Closed

\* A socket that backed a member has disconnected: that member is offline
\* and another member is still backed by a connected socket.
C22_Witness ==
  /\ last.op = "disconnect"
  /\ sent # <<>>
  /\ last.ch \in Closed
  /\ \E g \in DOMAIN groups :
       /\ \E u \in DOMAIN groups[g].members : IsOffline(groups, g, u)
       /\ \E u \in DOMAIN groups[g].members :
            HasProp(groups[g].members[u], "socketId")

====
